---- MODULE Spec2Model ----
(***************************************************************************)
(* Sliding-window rate limiter over a shared Redis store                   *)
(* (src/rate_limiter.py, and its copy with the epsilon in src/app.py).     *)
(*                                                                         *)
(* Time is a clock of whole ticks that never runs backwards.  time.time()  *)
(* returns the clock's value, so two calls that read the clock without a   *)
(* tick in between obtain the same timestamp.  Redis executes one command  *)
(* (or one MULTI/EXEC pipeline) at a time; the steps of different callers  *)
(* interleave freely between commands.                                     *)
(***************************************************************************)
EXTENDS Integers, Sequences, FiniteSets, TLC

\* ---------------------------------------------------------------- bounds
\* The clock runs from 0 to MaxTime.
MaxTime == 3

\* Calls begun in a run: by concurrent callers, by one caller on one
\* identifier, by one caller on several identifiers.
MaxCalls == 3

MaxSeqCalls == 3

MaxIdCalls == 2

\* Requests served by a web application.
MaxHttpRequests == 3

\* Calls begun by one caller whose store may fail.
MaxFailCalls == 2

\* Calls begun by one caller that passes its policy explicitly.
MaxArgCalls == 2

\* The configured policy: up to MaxRequests requests per window of up to
\* MaxWindow ticks.
MaxRequests == 3

MaxWindow == 2

\* Concurrent callers.
NumProcs == 2

\* ------------------------------------------------------------ the domain
Procs == 1..NumProcs

Ids == {"u", "v"}

Impls == {"rate_limiter", "app"}

\* The clients of the web applications, identified by their address.
Clients == {"u"}

\* The paths that carry a limit of their own in the example applications.
LimitedPaths == {"/api/strict", "/api/premium"}

\* route_identifier = f"route:{request.url.path}:{base_identifier}"
RouteIdentifier(path, base_identifier) == "route:" \o path \o ":" \o base_identifier

\* Every identifier the engine is called with.
Identifiers == Ids \cup {RouteIdentifier(path, c) : path \in LimitedPaths, c \in Clients}

Configs == [default_requests : 1..MaxRequests, default_window : 1..MaxWindow]

\* An omitted optional argument (Python None).
None == <<>>

\* A key without a time-to-live.
NoExpiry == -1

VARIABLES
    now,     \* the clock read by time.time() and by the store
    impl,    \* which copy of RateLimiter runs: rate_limiter.py or app.py
    config,  \* RateLimiterConfig: default_requests, default_window
    db,      \* the store: key -> [zset: member -> score, expire_at]
    pc,      \* per caller: where in its call it stands
    call,    \* per caller: the locals of its call in progress
    ncalls,  \* number of calls begun so far
    hist,    \* the calls that have returned, in order of return
    http     \* the web application in front of the engine, if any

vars == <<now, impl, config, db, pc, call, ncalls, hist, http>>

\* ------------------------------------------------------- helper operators
Max(a, b) == IF a >= b THEN a ELSE b

\* A resolution that ignores the argument.
OrDefault_AlwaysDefault(arg, default) == default

\* Python's `arg or default`: None and 0 are both falsy.
OrDefault(arg, default) == IF arg = None \/ arg = <<0>> THEN default ELSE arg[1]

\* A key that does not depend on the identifier.
Key_Shared(identifier) == <<"rate_limit", "">>

\* key = f"rate_limit:{identifier}"
Key(identifier) == <<"rate_limit", identifier>>

Keys == {Key(i) : i \in Identifiers}

\* str(current_time): the decimal text of the timestamp, the member's name.
\* Equal timestamps give equal texts, different ones different texts.
Str(t) == <<"str", t>>

\* window_start = current_time - window_seconds            (rate_limiter.py)
\* window_start = current_time - window_seconds - 0.00001  (app.py)
\* Timestamps are whole ticks and 0.00001 is less than a tick, so the scores
\* in [0, t - w - 0.00001] are the whole ticks in [0, t - w - 1].
WindowStart(variant, current_time, window_seconds) ==
    IF variant = "app"
    THEN current_time - window_seconds - 1
    ELSE current_time - window_seconds

\* ------------------------------------------------------ the sorted set
EmptyZSet == [x \in {} |-> 0]

\* A key that does not exist.
Absent == [zset |-> EmptyZSet, expire_at |-> NoExpiry]

\* An existence test that always succeeds.
Exists_Always(rec) == TRUE

\* A key exists while its sorted set has a member.
Exists(rec) == DOMAIN rec.zset # {}

\* ZCARD key
ZCard(rec) == Cardinality(DOMAIN rec.zset)

\* A purge that removes nothing.
ZRemRangeByScore_KeepAll(rec, lo, hi) == rec

\* ZREMRANGEBYSCORE key lo hi: drops the members with lo <= score <= hi;
\* a sorted set left empty is deleted together with its time-to-live.
ZRemRangeByScore(rec, lo, hi) ==
    LET keep == {x \in DOMAIN rec.zset : ~(lo <= rec.zset[x] /\ rec.zset[x] <= hi)}
    IN  IF keep = {} THEN Absent
        ELSE [rec EXCEPT !.zset = [x \in keep |-> rec.zset[x]]]

\* ZADD key score member: a member already present only has its score set.
ZAdd(rec, member, score) ==
    [rec EXCEPT !.zset = [x \in DOMAIN rec.zset \cup {member} |->
                             IF x = member THEN score ELSE rec.zset[x]]]

\* ZREM key member
ZRem(rec, member) ==
    LET keep == DOMAIN rec.zset \ {member}
    IN  IF keep = {} THEN Absent
        ELSE [rec EXCEPT !.zset = [x \in keep |-> rec.zset[x]]]

\* An EXPIRE that sets nothing.
Expire_Never(rec, seconds, t) == rec

\* EXPIRE key seconds, issued at store time t: no effect on a missing key,
\* a non-positive time-to-live deletes the key.
Expire(rec, seconds, t) ==
    IF ~Exists(rec) THEN rec
    ELSE IF seconds <= 0 THEN Absent
    ELSE [rec EXCEPT !.expire_at = t + seconds]

\* A delete that leaves the key in place.
Delete_Nothing(rec) == rec

\* DEL key
Delete(rec) == Absent

\* The smallest score stored in an existing sorted set.
OldestScore(rec) ==
    CHOOSE s \in {rec.zset[x] : x \in DOMAIN rec.zset} :
        \A x \in DOMAIN rec.zset : s <= rec.zset[x]

\* A key whose time-to-live has run out at store time t is gone.
Expired(rec, t) == rec.expire_at # NoExpiry /\ t > rec.expire_at

\* ------------------------------------------------------------ the verdict
\* A decision that admits one request too many.
Allowed_Inclusive(max_requests, request_count) == request_count <= max_requests

\* is_allowed = request_count < max_requests
Allowed(max_requests, request_count) == request_count < max_requests

\* A remaining that forgets the request being decided.
Remaining_WithoutThisRequest(max_requests, request_count) ==
    Max(0, max_requests - request_count)

\* remaining = max(0, max_requests - request_count - 1)
Remaining(max_requests, request_count) == Max(0, max_requests - request_count - 1)

\* A reset that is a duration instead of an absolute time.
ResetTime_Relative(current_time, window_seconds) == window_seconds

\* reset_time = int(current_time + window_seconds); on whole ticks int()
\* truncates nothing.
ResetTime(current_time, window_seconds) == current_time + window_seconds

\* "retry_after": window_seconds if request_count >= max_requests else 0
RetryAfter(max_requests, window_seconds, request_count) ==
    IF request_count >= max_requests THEN window_seconds ELSE 0

\* A batch whose EXPIRE is left out.
PipelineResult_WithoutExpire(rec, variant, current_time, window_seconds, t) ==
    LET purged == ZRemRangeByScore(rec, 0, WindowStart(variant, current_time, window_seconds))
    IN  [request_count |-> ZCard(purged),
         added |-> IF Str(current_time) \in DOMAIN purged.zset THEN 0 ELSE 1,
         oldest |-> IF ZCard(purged) > 0 THEN OldestScore(purged) ELSE current_time,
         rec |-> ZAdd(purged, Str(current_time), current_time)]

\* The four commands queued on the pipeline, executed by pipe.execute() as
\* one MULTI/EXEC transaction at store time t.  results[1] is ZCARD's reply,
\* results[2] ZADD's: the number of members it added (the code ignores it).
\* oldest is the score of the oldest event that ZCARD counted, the call's own
\* timestamp when it counted none.
PipelineResult(rec, variant, current_time, window_seconds, t) ==
    LET purged == ZRemRangeByScore(rec, 0, WindowStart(variant, current_time, window_seconds))
    IN  [request_count |-> ZCard(purged),
         added |-> IF Str(current_time) \in DOMAIN purged.zset THEN 0 ELSE 1,
         oldest |-> IF ZCard(purged) > 0 THEN OldestScore(purged) ELSE current_time,
         rec |-> Expire(ZAdd(purged, Str(current_time), current_time), window_seconds, t)]

\* The record after the store has applied only the first n of the four
\* queued commands (n = 0: the batch never arrived; n = 4: it was applied in
\* full and only the reply was lost).
PipelineApplied(rec, variant, current_time, window_seconds, t, n) ==
    LET purged == ZRemRangeByScore(rec, 0, WindowStart(variant, current_time, window_seconds))
        added == ZAdd(purged, Str(current_time), current_time)
    IN  IF n = 0 THEN rec
        ELSE IF n <= 2 THEN purged
        ELSE IF n = 3 THEN added
        ELSE Expire(added, window_seconds, t)

\* ------------------------------------------------------------- the state
NoCall == [cid |-> 0, op |-> "none", identifier |-> "", args |-> <<None, None>>,
           max_requests |-> 0, window_seconds |-> 0, current_time |-> 0,
           request_count |-> 0, added |-> 0, oldest |-> 0, ops |-> 0, rival |-> 0]

\* The record kept of a call that has returned: its arguments as given and
\* as resolved, the timestamp it read, the time it returned at, what it
\* returned, the store round trips it made, the store command that failed
\* if one did, and the command whose exception ended the call if one did.
Returned(c, existed) ==
    [cid |-> c.cid, op |-> c.op, identifier |-> c.identifier, args |-> c.args,
     oldest |-> c.oldest, ops |-> c.ops, failed |-> "none", raised |-> "none",
     t |-> c.current_time, done |-> now, limit |-> c.max_requests, window |-> c.window_seconds,
     allowed |-> c.op = "is_allowed" /\ Allowed(c.max_requests, c.request_count),
     remaining |-> Remaining(c.max_requests, c.request_count),
     reset |-> ResetTime(c.current_time, c.window_seconds),
     retry_after |-> RetryAfter(c.max_requests, c.window_seconds, c.request_count),
     count |-> c.request_count, existed |-> existed, rival |-> c.rival]

\* ------------------------------------------------- the web applications
\* example_fastapi.py (middleware_fastapi.py on rate_limiter.py), app.py (its
\* own copies of all three) and example_flask.py (middleware_flask.py on
\* rate_limiter.py).
Apps == {"example_fastapi", "app", "example_flask"}

\* The paths a client requests: FastAPI's /api/strict has a dependency of
\* its own and /api/public only the global middleware; Flask's /api/strict
\* and /api/premium are both decorated.
Paths(app) ==
    IF app = "example_flask" THEN {"/api/strict", "/api/premium"}
    ELSE {"/api/strict", "/api/public"}

\* The policies of the example applications, scaled down: the global
\* middleware's 100 (50 in app.py) requests per 60 s to 2 per 2 ticks,
\* /api/strict's 10 per 60 s to 1 per 2 ticks, /api/premium's 1000 per 60 s
\* to 3 per 2 ticks.
GlobalPolicy == [max_requests |-> 2, window_seconds |-> 2]

RoutePolicy(path) ==
    IF path = "/api/strict" THEN [max_requests |-> 1, window_seconds |-> 2]
    ELSE [max_requests |-> 3, window_seconds |-> 2]

\* The identifier rate_limit_dependency checks: app.py puts the path in
\* front of the client's, middleware_fastapi.py passes the client's as it is.
DependencyIdentifier(app, path, base_identifier) ==
    IF app = "app" THEN RouteIdentifier(path, base_identifier)
    ELSE base_identifier

\* What an adapter holds of the engine's answer: the flag and the metadata,
\* with the identifier and the timestamp of the check.
NoVerdict == [made |-> FALSE, identifier |-> "", t |-> 0, count |-> 0, allowed |-> FALSE,
              limit |-> 0, remaining |-> 0, reset |-> 0, retry_after |-> 0]

VerdictOf(h) == [made |-> TRUE, identifier |-> h.identifier, t |-> h.t, count |-> h.count,
                 allowed |-> h.allowed, limit |-> h.limit, remaining |-> h.remaining,
                 reset |-> h.reset, retry_after |-> h.retry_after]

\* A response: its status, the four rate-limit headers (None when not set)
\* and the limit, reset and retry_after of its body (None in a handler's
\* own body).
NoResponse == [status |-> 0, limit |-> None, remaining |-> None, reset |-> None,
               retry_after |-> None, body |-> None]

\* The response of the wrapped handler.
HandlerResponse == [NoResponse EXCEPT !.status = 200]

\* The 429 response built from the metadata of a blocked verdict:
\* X-RateLimit-Remaining is the literal "0".
TooManyRequests(metadata) ==
    [status |-> 429,
     limit |-> Str(metadata.limit),
     remaining |-> Str(0),
     reset |-> Str(metadata.reset),
     retry_after |-> Str(metadata.retry_after),
     body |-> <<metadata.limit, metadata.reset, metadata.retry_after>>]

\* response.headers[...] = str(metadata[...]) for limit, remaining, reset.
WithRateLimitHeaders(response, metadata) ==
    [response EXCEPT !.limit = Str(metadata.limit),
                     !.remaining = Str(metadata.remaining),
                     !.reset = Str(metadata.reset)]

\* The request being served: where its processing stands, who sent it to
\* which path, the verdicts obtained for it by the global middleware and by
\* the route's own limiter, how often the route's handler has run, the
\* response as the route (its limiter and handler) produced it, and the
\* response sent to the client.
NoRequest == [stage |-> "none", client |-> "", path |-> "", global |-> NoVerdict,
              route |-> NoVerdict, handler_calls |-> 0, inner |-> NoResponse,
              response |-> NoResponse]

\* No web application has been started.
NoHttp == [app |-> "none", req |-> NoRequest, log |-> <<>>]

\* A handler that answers a store error with "allowed".
OnStoreError_FailOpen(c, where) ==
    [Returned(c, FALSE) EXCEPT !.failed = where, !.allowed = TRUE]

\* Lines 67 and 85 stand in no try block: the exception of the store
\* command that failed leaves is_allowed as it is, and no verdict is returned.
OnStoreError(c, where) ==
    [Returned(c, FALSE) EXCEPT !.failed = where, !.raised = where, !.allowed = FALSE]

Init ==
    /\ now = 0
    /\ impl \in Impls
    /\ config \in Configs
    /\ db = [k \in Keys |-> Absent]
    /\ pc = [p \in Procs |-> "idle"]
    /\ call = [p \in Procs |-> NoCall]
    /\ ncalls = 0
    /\ hist = <<>>
    /\ http = NoHttp

\* The callers in the middle of a call on this identifier.
InProgressOn(identifier) ==
    {q \in Procs : pc[q] # "idle" /\ call[q].identifier = identifier}

\* What a pipeline reading the clock at t would count for this identifier.
CountAt(identifier, window_seconds, t) ==
    ZCard(ZRemRangeByScore(db[Key(identifier)], 0, WindowStart(impl, t, window_seconds)))

\* Bookkeeping for races: a call that begins while exactly one other
\* is_allowed call on the identifier has read the clock and not yet executed
\* its pipeline, less than a window before, with exactly one free slot for
\* both of them, races with it.
RacesWith(q, identifier, m, w) ==
    /\ InProgressOn(identifier) = {q}
    /\ pc[q] = "pipe"
    /\ call[q].max_requests = m /\ call[q].window_seconds = w
    /\ now - call[q].current_time < w
    /\ m - CountAt(identifier, w, now) = 1
    /\ m - CountAt(identifier, w, call[q].current_time) = 1

\* The callers' locals when caller p begins call c on c.identifier: any
\* other call in progress on the identifier is paired with c if c races
\* with it, and loses its pairing if not.
BeginCall(p, c, racing) ==
    [r \in Procs |->
        IF r = p THEN c
        ELSE IF r \in InProgressOn(c.identifier)
             THEN [call[r] EXCEPT !.rival = IF racing THEN c.cid ELSE 0]
             ELSE call[r]]

\* -------------------------------------------------------------- is_allowed
\* Lines 44-49: resolve the policy, derive the key, read the clock.
IsAllowedCall(p, identifier, max_requests, window_seconds) ==
    /\ pc[p] = "idle"
    /\ LET m == OrDefault(max_requests, config.default_requests)
           w == OrDefault(window_seconds, config.default_window)
           racing == \E q \in Procs \ {p} : RacesWith(q, identifier, m, w)
           rival == IF racing
                    THEN call[CHOOSE q \in Procs \ {p} : RacesWith(q, identifier, m, w)].cid
                    ELSE 0
           c == [cid |-> ncalls + 1, op |-> "is_allowed", identifier |-> identifier,
                 args |-> <<max_requests, window_seconds>>,
                 max_requests |-> m, window_seconds |-> w, current_time |-> now,
                 request_count |-> 0, added |-> 0, oldest |-> 0, ops |-> 0,
                 rival |-> rival]
       IN  call' = BeginCall(p, c, racing)
    /\ pc' = [pc EXCEPT ![p] = "pipe"]
    /\ ncalls' = ncalls + 1
    /\ UNCHANGED <<now, impl, config, db, hist>>

\* is_allowed called by an application directly.
IsAllowedBegin(p, identifier, max_requests, window_seconds) ==
    /\ IsAllowedCall(p, identifier, max_requests, window_seconds)
    /\ UNCHANGED http

\* Lines 52-81 and, when allowed, the return of line 87: the pipeline
\* executes as one transaction, the verdict is computed from results[1].
IsAllowedExecute(p) ==
    /\ pc[p] = "pipe"
    /\ LET c == call[p]
           k == Key(c.identifier)
           r == PipelineResult(db[k], impl, c.current_time, c.window_seconds, now)
           done == [c EXCEPT !.request_count = r.request_count, !.added = r.added,
                             !.oldest = r.oldest, !.ops = c.ops + 1]
       IN  /\ db' = [db EXCEPT ![k] = r.rec]
           /\ IF Allowed(c.max_requests, r.request_count)
              THEN /\ pc' = [pc EXCEPT ![p] = "idle"]
                   /\ call' = [call EXCEPT ![p] = NoCall]
                   /\ hist' = Append(hist, Returned(done, FALSE))
              ELSE /\ pc' = [pc EXCEPT ![p] = "zrem"]
                   /\ call' = [call EXCEPT ![p] = done]
                   /\ hist' = hist
    /\ UNCHANGED <<now, impl, config, ncalls, http>>

\* Lines 84-87: a rejected call removes the member it added, in a command
\* of its own sent after the transaction, and returns.
IsAllowedZrem(p) ==
    /\ pc[p] = "zrem"
    /\ LET c == call[p]
           k == Key(c.identifier)
       IN  /\ db' = [db EXCEPT ![k] = ZRem(db[k], Str(c.current_time))]
           /\ hist' = Append(hist, Returned([c EXCEPT !.ops = c.ops + 1], FALSE))
    /\ pc' = [pc EXCEPT ![p] = "idle"]
    /\ call' = [call EXCEPT ![p] = NoCall]
    /\ UNCHANGED <<now, impl, config, ncalls, http>>

\* ------------------------------------------------- is_allowed, store errors
\* Line 67 when the store fails (connection lost, timeout, a command of the
\* batch in error): the store has applied the first `applied` commands of the
\* batch and pipe.execute() raises.
IsAllowedExecuteFails(p, applied) ==
    /\ pc[p] = "pipe"
    /\ LET c == call[p]
           k == Key(c.identifier)
       IN  /\ db' = [db EXCEPT ![k] = PipelineApplied(db[k], impl, c.current_time,
                                                      c.window_seconds, now, applied)]
           /\ hist' = Append(hist, OnStoreError([c EXCEPT !.ops = c.ops + 1],
                                                "pipe.execute"))
    /\ pc' = [pc EXCEPT ![p] = "idle"]
    /\ call' = [call EXCEPT ![p] = NoCall]
    /\ UNCHANGED <<now, impl, config, ncalls, http>>

\* Line 85 when the store fails: the removal was applied or not, and zrem
\* raises.
IsAllowedZremFails(p, applied) ==
    /\ pc[p] = "zrem"
    /\ LET c == call[p]
           k == Key(c.identifier)
       IN  /\ db' = [db EXCEPT ![k] = IF applied THEN ZRem(db[k], Str(c.current_time))
                                      ELSE db[k]]
           /\ hist' = Append(hist, OnStoreError([c EXCEPT !.ops = c.ops + 1], "zrem"))
    /\ pc' = [pc EXCEPT ![p] = "idle"]
    /\ call' = [call EXCEPT ![p] = NoCall]
    /\ UNCHANGED <<now, impl, config, ncalls, http>>

\* ------------------------------------------------------------------- reset
\* Lines 99-100: one DEL; returns whether a key was deleted.
Reset(p, identifier) ==
    /\ pc[p] = "idle"
    /\ LET k == Key(identifier)
           c == [NoCall EXCEPT !.cid = ncalls + 1, !.op = "reset",
                               !.identifier = identifier, !.current_time = now,
                               !.ops = 1]
       IN  /\ db' = [db EXCEPT ![k] = Delete(db[k])]
           /\ call' = [BeginCall(p, c, FALSE) EXCEPT ![p] = NoCall]
           /\ hist' = Append(hist, Returned(c, Exists(db[k])))
    /\ ncalls' = ncalls + 1
    /\ UNCHANGED <<now, impl, config, pc, http>>

\* --------------------------------------------------------------- get_usage
\* Lines 113-116: resolve the window, derive the key, read the clock.
GetUsageBegin(p, identifier, window_seconds) ==
    /\ pc[p] = "idle"
    /\ LET w == OrDefault(window_seconds, config.default_window)
           c == [NoCall EXCEPT !.cid = ncalls + 1, !.op = "get_usage",
                               !.identifier = identifier, !.window_seconds = w,
                               !.args = <<None, window_seconds>>,
                               !.current_time = now]
       IN  call' = BeginCall(p, c, FALSE)
    /\ pc' = [pc EXCEPT ![p] = "purge"]
    /\ ncalls' = ncalls + 1
    /\ UNCHANGED <<now, impl, config, db, hist, http>>

\* Line 119: ZREMRANGEBYSCORE, a command of its own.
GetUsagePurge(p) ==
    /\ pc[p] = "purge"
    /\ LET c == call[p]
           k == Key(c.identifier)
       IN  db' = [db EXCEPT ![k] = ZRemRangeByScore(db[k], 0,
                      WindowStart(impl, c.current_time, c.window_seconds))]
    /\ call' = [call EXCEPT ![p].ops = @ + 1]
    /\ pc' = [pc EXCEPT ![p] = "card"]
    /\ UNCHANGED <<now, impl, config, ncalls, hist, http>>

\* Line 120: ZCARD, a second command; its reply is returned.
GetUsageCard(p) ==
    /\ pc[p] = "card"
    /\ LET c == call[p]
           done == [c EXCEPT !.request_count = ZCard(db[Key(c.identifier)]),
                             !.ops = c.ops + 1]
       IN  /\ call' = [call EXCEPT ![p] = NoCall]
           /\ hist' = Append(hist, Returned(done, FALSE))
    /\ pc' = [pc EXCEPT ![p] = "idle"]
    /\ UNCHANGED <<now, impl, config, db, ncalls, http>>

\* ---------------------------------------------------------------- the clock
\* Time passes, up to the end of the run; the store drops every key whose
\* time-to-live has run out.
TickUntil(end) ==
    /\ now < end
    /\ now' = now + 1
    /\ db' = [k \in Keys |-> IF Expired(db[k], now + 1) THEN Absent ELSE db[k]]
    /\ UNCHANGED <<impl, config, pc, call, ncalls, hist, http>>

Tick == TickUntil(MaxTime)

\* ------------------------------------------------------------ the adapters
\* The worker that serves the requests, one at a time.
Worker == 1

\* The engine's answer to the check the adapter is waiting for.
Answer == VerdictOf(hist[Len(hist)])

\* The request is answered: it is logged with its response.
Respond(req, response) ==
    http' = [http EXCEPT !.req = NoRequest,
                         !.log = Append(@, [req EXCEPT !.stage = "done",
                                                       !.response = response])]

\* One of the applications is started on the engine it imports.
StartApp(app) ==
    /\ http.app = "none"
    /\ (app = "app") <=> (impl = "app")
    /\ http' = [http EXCEPT !.app = app]
    /\ UNCHANGED <<now, impl, config, db, pc, call, ncalls, hist>>

\* RateLimitMiddleware.dispatch up to its call of is_allowed: the identifier
\* is the client's, the policy the middleware's.
Dispatch(client, path) ==
    /\ http.app \in {"example_fastapi", "app"}
    /\ http.req.stage = "none"
    /\ path \in Paths(http.app)
    /\ IsAllowedCall(Worker, client, <<GlobalPolicy.max_requests>>,
                     <<GlobalPolicy.window_seconds>>)
    /\ http' = [http EXCEPT !.req = [NoRequest EXCEPT !.stage = "dispatch",
                                                      !.client = client,
                                                      !.path = path]]

\* dispatch, blocked: the 429 JSONResponse is returned, call_next is not
\* called.
DispatchBlocked ==
    /\ http.req.stage = "dispatch" /\ pc[Worker] = "idle"
    /\ ~Answer.allowed
    /\ Respond([http.req EXCEPT !.global = Answer], TooManyRequests(Answer))
    /\ UNCHANGED <<now, impl, config, db, pc, call, ncalls, hist>>

\* dispatch, allowed, on a path without a dependency: call_next runs the
\* handler and the middleware sets its three headers on the response.
DispatchHandler ==
    /\ http.req.stage = "dispatch" /\ pc[Worker] = "idle"
    /\ Answer.allowed
    /\ http.req.path \notin LimitedPaths
    /\ Respond([http.req EXCEPT !.global = Answer,
                                !.handler_calls = @ + 1,
                                !.inner = HandlerResponse],
               WithRateLimitHeaders(HandlerResponse, Answer))
    /\ UNCHANGED <<now, impl, config, db, pc, call, ncalls, hist>>

\* dispatch, allowed, on a path with rate_limit_dependency: call_next runs
\* the dependency up to its call of is_allowed.
Dependency ==
    /\ http.req.stage = "dispatch" /\ pc[Worker] = "idle"
    /\ Answer.allowed
    /\ http.req.path \in LimitedPaths
    /\ IsAllowedCall(Worker,
                     DependencyIdentifier(http.app, http.req.path, http.req.client),
                     <<RoutePolicy(http.req.path).max_requests>>,
                     <<RoutePolicy(http.req.path).window_seconds>>)
    /\ http' = [http EXCEPT !.req.stage = "dependency", !.req.global = Answer]

\* The dependency, blocked: HTTPException(429) with its headers and detail;
\* the handler does not run; back in dispatch, whose own verdict was
\* allowed, the middleware sets its three headers on that response.
DependencyBlocked ==
    /\ http.req.stage = "dependency" /\ pc[Worker] = "idle"
    /\ ~Answer.allowed
    /\ Respond([http.req EXCEPT !.route = Answer,
                                !.inner = TooManyRequests(Answer)],
               WithRateLimitHeaders(TooManyRequests(Answer), http.req.global))
    /\ UNCHANGED <<now, impl, config, db, pc, call, ncalls, hist>>

\* The dependency, allowed: it returns the metadata, the handler runs, and
\* the middleware sets its three headers on the handler's response.
DependencyAllowed ==
    /\ http.req.stage = "dependency" /\ pc[Worker] = "idle"
    /\ Answer.allowed
    /\ Respond([http.req EXCEPT !.route = Answer, !.handler_calls = @ + 1,
                                !.inner = HandlerResponse],
               WithRateLimitHeaders(HandlerResponse, http.req.global))
    /\ UNCHANGED <<now, impl, config, db, pc, call, ncalls, hist>>

\* FlaskRateLimiter.limit, decorated_function up to its call of is_allowed:
\* the identifier is the client's, the policy the decorator's.
DecoratedFunction(client, path) ==
    /\ http.app = "example_flask"
    /\ http.req.stage = "none"
    /\ path \in Paths(http.app)
    /\ IsAllowedCall(Worker, client, <<RoutePolicy(path).max_requests>>,
                     <<RoutePolicy(path).window_seconds>>)
    /\ http' = [http EXCEPT !.req = [NoRequest EXCEPT !.stage = "limit",
                                                      !.client = client,
                                                      !.path = path]]

\* decorated_function, blocked: the 429 response is made, f is not called;
\* _after_request then sets the three headers from the stored metadata.
DecoratedBlocked ==
    /\ http.req.stage = "limit" /\ pc[Worker] = "idle"
    /\ ~Answer.allowed
    /\ Respond([http.req EXCEPT !.route = Answer,
                                !.inner = WithRateLimitHeaders(TooManyRequests(Answer),
                                                               Answer)],
               WithRateLimitHeaders(TooManyRequests(Answer), Answer))
    /\ UNCHANGED <<now, impl, config, db, pc, call, ncalls, hist>>

\* decorated_function, allowed: f is called; _after_request sets the three
\* headers from the stored metadata.
DecoratedAllowed ==
    /\ http.req.stage = "limit" /\ pc[Worker] = "idle"
    /\ Answer.allowed
    /\ Respond([http.req EXCEPT !.route = Answer, !.handler_calls = @ + 1,
                                !.inner = WithRateLimitHeaders(HandlerResponse, Answer)],
               WithRateLimitHeaders(HandlerResponse, Answer))
    /\ UNCHANGED <<now, impl, config, db, pc, call, ncalls, hist>>

\* ------------------------------------------------------- specifications
\* Callers P use the engine on the identifiers I with the configured
\* default policy and begin at most n calls between them.
Step(P, I, n) ==
    \/ /\ ncalls < n
       /\ \E p \in P, identifier \in I : IsAllowedBegin(p, identifier, None, None)
    \/ \E p \in P : IsAllowedExecute(p)
    \/ \E p \in P : IsAllowedZrem(p)
    \/ /\ ncalls < n
       /\ \E p \in P, identifier \in I : Reset(p, identifier)
    \/ /\ ncalls < n
       /\ \E p \in P, identifier \in I : GetUsageBegin(p, identifier, None)
    \/ \E p \in P : GetUsagePurge(p)
    \/ \E p \in P : GetUsageCard(p)
    \/ Tick

\* Any number of callers (RateLimiter instances, threads) on one store.
Next == Step(Procs, Ids, MaxCalls)

Spec == Init /\ [][Next]_vars

\* One caller issuing its calls on one identifier one after the other.
NextSeq == Step({1}, {"u"}, MaxSeqCalls)

SpecSeq == Init /\ [][NextSeq]_vars

\* One caller issuing its calls on several identifiers one after the other.
NextIds == Step({1}, Ids, MaxIdCalls)

SpecIds == Init /\ [][NextIds]_vars

\* One caller checking one identifier with the default policy on a store
\* whose commands may fail.
NextFail ==
    \/ /\ ncalls < MaxFailCalls
       /\ IsAllowedBegin(1, "u", None, None)
    \/ IsAllowedExecute(1)
    \/ \E applied \in 0..4 : IsAllowedExecuteFails(1, applied)
    \/ IsAllowedZrem(1)
    \/ \E applied \in BOOLEAN : IsAllowedZremFails(1, applied)
    \/ Tick

SpecFail == Init /\ [][NextFail]_vars

\* One of the web applications serving the requests of one client, one
\* request at a time.
NextHttp ==
    \/ \E app \in Apps : StartApp(app)
    \/ /\ Len(http.log) < MaxHttpRequests
       /\ \E client \in Clients, path \in LimitedPaths \cup {"/api/public"} :
              Dispatch(client, path)
    \/ DispatchBlocked
    \/ DispatchHandler
    \/ Dependency
    \/ DependencyBlocked
    \/ DependencyAllowed
    \/ /\ Len(http.log) < MaxHttpRequests
       /\ \E client \in Clients, path \in LimitedPaths : DecoratedFunction(client, path)
    \/ DecoratedBlocked
    \/ DecoratedAllowed
    \/ IsAllowedExecute(Worker)
    \/ IsAllowedZrem(Worker)
    \/ Tick

SpecHttp == Init /\ [][NextHttp]_vars

\* What a caller may pass for max_requests or window_seconds: nothing, a
\* negative number, zero, a positive number.
ArgValues == {None, <<-1>>, <<0>>, <<2>>}

\* One caller checking one identifier with any policy arguments.
NextArgs ==
    \/ /\ ncalls < MaxArgCalls
       /\ \E max_requests, window_seconds \in ArgValues :
              IsAllowedBegin(1, "u", max_requests, window_seconds)
    \/ IsAllowedExecute(1)
    \/ IsAllowedZrem(1)
    \/ Tick

SpecArgs == Init /\ [][NextArgs]_vars

\* What a caller that chooses its policy passes for max_requests and
\* window_seconds: nothing, both, or one of the two.
PolicyArgs == {<<None, None>>, <<<<1>>, <<1>>>>, <<<<2>>, None>>, <<None, <<2>>>>}

\* One caller checking and reading one identifier, with an explicit positive
\* policy or with the defaults, call by call, for as long as the longest
\* window.
NextPolicy ==
    \/ /\ ncalls < MaxArgCalls
       /\ \E args \in PolicyArgs : IsAllowedBegin(1, "u", args[1], args[2])
    \/ IsAllowedExecute(1)
    \/ IsAllowedZrem(1)
    \/ /\ ncalls < MaxArgCalls
       /\ \E args \in PolicyArgs : GetUsageBegin(1, "u", args[2])
    \/ GetUsagePurge(1)
    \/ GetUsageCard(1)
    \/ TickUntil(MaxWindow)

SpecPolicy == Init /\ [][NextPolicy]_vars

\* The sliding-window scenario: one caller checks "u" with the explicit
\* policy (3, 5) at the times 0, 1, 2, 3 and 6, one call per time.
ScenarioTimes == <<0, 1, 2, 3, 6>>

NextScenario ==
    \/ /\ ncalls < Len(ScenarioTimes)
       /\ now = ScenarioTimes[ncalls + 1]
       /\ IsAllowedBegin(1, "u", <<3>>, <<5>>)
    \/ IsAllowedExecute(1)
    \/ IsAllowedZrem(1)
    \/ TickUntil(ScenarioTimes[Len(ScenarioTimes)])

SpecScenario == Init /\ [][NextScenario]_vars

\* ------------------------------------------- the default identifier
\* Text is a sequence of symbols: an address, a comma or a blank.  A header
\* is None when the request does not carry it, else <<its text>>.
Addresses == {"10.0.0.1", "10.0.0.2", "10.0.0.3"}

\* `if value:` on a header or attribute: None and the empty text are falsy.
Truthy(value) == value # None /\ value[1] # <<>>

\* text.split(",")[0]
FirstEntry(text) ==
    LET commas == {i \in DOMAIN text : text[i] = ","}
    IN  IF commas = {} THEN text
        ELSE SubSeq(text, 1, (CHOOSE i \in commas : \A j \in commas : i <= j) - 1)

\* text.strip()
Strip(text) ==
    LET solid == {i \in DOMAIN text : text[i] # " "}
    IN  IF solid = {} THEN <<>>
        ELSE SubSeq(text, CHOOSE i \in solid : \A j \in solid : i <= j,
                          CHOOSE i \in solid : \A j \in solid : i >= j)

\* The functions that name the client of a request when the application
\* passes no identifier_func.
IdentifierFuncs == {"RateLimitMiddleware._default_identifier",
                    "rate_limit_dependency._default_identifier",
                    "FlaskRateLimiter._default_identifier",
                    "create_rate_limit_middleware.identifier_getter"}

\* request.client.host if request.client else "unknown";
\* request.remote_addr or "unknown"
PeerAddress(request) == IF Truthy(request.peer) THEN request.peer[1] ELSE <<"unknown">>

\* What each of them returns for a request.
DefaultIdentifier(func, request) ==
    IF func = "create_rate_limit_middleware.identifier_getter"
    THEN PeerAddress(request)
    ELSE IF Truthy(request.forwarded_for)
    THEN Strip(FirstEntry(request.forwarded_for[1]))
    ELSE IF func # "rate_limit_dependency._default_identifier" /\ Truthy(request.real_ip)
    THEN request.real_ip[1]
    ELSE PeerAddress(request)

\* The requests: with or without X-Forwarded-For (one entry, or several
\* with blanks around them), with or without X-Real-IP, from a peer.
Requests ==
    [forwarded_for : {None, <<<<"10.0.0.1">>>>,
                      <<<<" ", "10.0.0.2", " ", ",", " ", "10.0.0.1">>>>},
     real_ip : {None} \cup {<<<<a>>>> : a \in Addresses},
     peer : {None} \cup {<<<<a>>>> : a \in Addresses}]

\* A request has arrived; no adapter has named its client yet.
InitIdentifier ==
    /\ now = 0
    /\ impl \in Impls
    /\ config \in Configs
    /\ db = [k \in Keys |-> Absent]
    /\ pc = [p \in Procs |-> "idle"]
    /\ call = [p \in Procs |-> NoCall]
    /\ ncalls = 0
    /\ hist = <<>>
    /\ \E request \in Requests :
          http = [app |-> "identifier", req |-> request, log |-> <<>>]

\* An adapter without identifier_func names the client of the request.
Identify(func) ==
    /\ \A i \in DOMAIN http.log : http.log[i].func # func
    /\ http' = [http EXCEPT !.log = Append(@, [func |-> func,
                                               identifier |-> DefaultIdentifier(func, http.req)])]
    /\ UNCHANGED <<now, impl, config, db, pc, call, ncalls, hist>>

NextIdentifier == \E func \in IdentifierFuncs : Identify(func)

SpecIdentifier == InitIdentifier /\ [][NextIdentifier]_vars

\* ------------------------------------------------ the in-memory demo
\* demo_no_redis.py, SimpleRateLimitMiddleware._is_allowed on the list
\* request_store[identifier]: the purge keeps the timestamps after
\* window_start, the count is the length of the list, and the timestamp is
\* appended only when the request is allowed.
SimpleIsAllowed(stored, max_requests, window_seconds, current_time) ==
    LET window_start == current_time - window_seconds
        kept == SelectSeq(stored, LAMBDA ts : ts > window_start)
        request_count == Len(kept)
        is_allowed == request_count < max_requests
    IN  [allowed |-> is_allowed,
         limit |-> max_requests,
         remaining |-> Max(0, max_requests - request_count - 1),
         reset |-> current_time + window_seconds,
         retry_after |-> IF request_count >= max_requests THEN window_seconds ELSE 0,
         stored |-> IF is_allowed THEN Append(kept, current_time) ELSE kept]

\* The demo application is constructed with the policy that the engine has
\* as its defaults; its request_store is empty.
InitDemo ==
    /\ now = 0
    /\ impl = "rate_limiter"
    /\ config \in Configs
    /\ db = [k \in Keys |-> Absent]
    /\ pc = [p \in Procs |-> "idle"]
    /\ call = [p \in Procs |-> NoCall]
    /\ ncalls = 0
    /\ hist = <<>>
    /\ http = [app |-> "demo_no_redis", max_requests |-> config.default_requests,
               window_seconds |-> config.default_window,
               request_store |-> [identifier \in Clients |-> <<>>], log |-> <<>>]

\* The same check is made of both at the same time: _is_allowed runs on
\* the list at once, RateLimiter.is_allowed begins its call on the store.
DemoIsAllowed(identifier) ==
    /\ http.app = "demo_no_redis"
    /\ IsAllowedCall(Worker, identifier, None, None)
    /\ LET answer == SimpleIsAllowed(http.request_store[identifier], http.max_requests,
                                     http.window_seconds, now)
       IN  http' = [http EXCEPT !.request_store[identifier] = answer.stored,
                                !.log = Append(@, answer)]

\* One caller checking one client's identifier on the demo and on the
\* engine, call by call.
NextDemo ==
    \/ /\ ncalls < MaxSeqCalls
       /\ \E identifier \in Clients : DemoIsAllowed(identifier)
    \/ IsAllowedExecute(Worker)
    \/ IsAllowedZrem(Worker)
    \/ Tick

SpecDemo == InitDemo /\ [][NextDemo]_vars

\* ------------------------------------------------ reading the history
\* The calls of one operation on one identifier that have returned, in the
\* order they returned.
CallsOf(op, identifier) ==
    SelectSeq(hist, LAMBDA h : h.op = op /\ h.identifier = identifier)

\* No reset of the identifier has been issued.
NoResetOn(identifier) == Len(CallsOf("reset", identifier)) = 0

\* The allowed calls among a sequence of returned calls.
AllowedOf(calls) == SelectSeq(calls, LAMBDA h : h.allowed)

\* The returned is_allowed calls on the identifier that were allowed and
\* whose timestamps lie in (lo, hi].
AllowedIn(identifier, lo, hi) ==
    {i \in DOMAIN hist : /\ hist[i].op = "is_allowed"
                         /\ hist[i].identifier = identifier
                         /\ hist[i].allowed
                         /\ lo < hist[i].t /\ hist[i].t <= hi}

\* ------------------------------------------------------------------- C1
\* C1: with only is_allowed calls under the fixed policy (m, w), in any
\* interleaving, at most m allowed calls have their timestamps in any
\* interval (t - w, t].
C1_AtMostMPerWindow ==
    \A identifier \in Ids : \A t \in 0..MaxTime :
        NoResetOn(identifier) =>
            Cardinality(AllowedIn(identifier, t - config.default_window, t))
                <= config.default_requests

\* ------------------------------------------------------------------- C2
\* C2: sequential calls from an empty record, all made and answered within
\* w of the first: calls 1..m are allowed, every later one is blocked.
C2_FirstMAllowedThenBlocked ==
    \A identifier \in Ids :
        LET S == CallsOf("is_allowed", identifier)
        IN  NoResetOn(identifier) =>
                \A k \in DOMAIN S :
                    S[k].done < S[1].t + config.default_window =>
                        (S[k].allowed <=> k <= config.default_requests)

\* ------------------------------------------------------------------- C3
\* C3: of two is_allowed calls that race for the one free slot of an
\* identifier, with no other call on it meanwhile, exactly one is allowed.
C3_RaceAdmitsExactlyOne ==
    \A i, j \in DOMAIN hist :
        (/\ i # j
         /\ hist[i].rival # 0
         /\ hist[i].rival = hist[j].cid
         /\ hist[j].rival = hist[i].cid)
            => (hist[i].allowed # hist[j].allowed)

\* ------------------------------------------------------------------- C4
\* The members a caller's next store command counts, if that command is a
\* count: the pipeline counts after its purge, get_usage's ZCARD as is.
Counted(p) ==
    LET c == call[p]
        rec == db[Key(c.identifier)]
    IN  IF pc[p] = "pipe"
        THEN DOMAIN ZRemRangeByScore(rec, 0,
                 WindowStart(impl, c.current_time, c.window_seconds)).zset
        ELSE IF pc[p] = "card" THEN DOMAIN rec.zset
        ELSE {}

\* C4: no is_allowed or get_usage call counts the event that a rejected
\* check on the same identifier has inserted and is about to remove.
C4_RejectedEventNeverCounted ==
    [][\A p, q \in Procs :
          (/\ p # q
           /\ pc[q] = "zrem"
           /\ call[q].added = 1
           /\ pc[p] \in {"pipe", "card"}
           /\ pc'[p] # pc[p]
           /\ call[p].identifier = call[q].identifier)
              => Str(call[q].current_time) \notin Counted(p)]_vars

\* ------------------------------------------------------------------- C5
\* What get_usage(identifier) returns when its two commands run now.
UsageNow(identifier) == CountAt(identifier, config.default_window, now)

\* The timestamps read by the is_allowed calls on the identifier, returned
\* or in progress, are all different.
DistinctTimestamps(identifier) ==
    LET S == CallsOf("is_allowed", identifier)
        P == {p \in Procs : /\ pc[p] # "idle"
                            /\ call[p].op = "is_allowed"
                            /\ call[p].identifier = identifier}
    IN  /\ \A i, j \in DOMAIN S : i # j => S[i].t # S[j].t
        /\ \A p, q \in P : p # q => call[p].current_time # call[q].current_time
        /\ \A p \in P : \A i \in DOMAIN S : call[p].current_time # S[i].t

\* C5: at every instant, also while a blocked call is in progress,
\* get_usage returns exactly the number of allowed events of the identifier
\* that are inside the window (here: for calls with distinct timestamps).
C5_UsageCountsAllowedOnly ==
    \A identifier \in Ids :
        (NoResetOn(identifier) /\ DistinctTimestamps(identifier)) =>
            UsageNow(identifier) =
                Cardinality(AllowedIn(identifier,
                    WindowStart(impl, now, config.default_window), now))

\* ------------------------------------------------------------------- C6
\* C6: after exactly k sequential allowed calls (k <= m, none blocked), all
\* made and answered inside the window that get_usage looks at and is
\* answered in, get_usage returns exactly k.
C6_UsageAfterKAllowed ==
    \A i \in DOMAIN hist :
        LET before == {j \in 1..(i - 1) : hist[j].identifier = hist[i].identifier}
        IN  (/\ hist[i].op = "get_usage"
             /\ \A j \in before : /\ hist[j].op = "is_allowed"
                                  /\ hist[j].allowed
                                  /\ hist[i].done < hist[j].t + hist[i].window
             /\ Cardinality(before) <= config.default_requests)
                => hist[i].count = Cardinality(before)

\* ------------------------------------------------------------------- C7
\* C7: sequential calls from an empty record, made and answered inside one
\* window: the k-th allowed call (k = 1..m) returns remaining = m - k;
\* remaining is never negative.
C7_RemainingCountsDown ==
    /\ \A identifier \in Ids :
          LET S == CallsOf("is_allowed", identifier)
              A == AllowedOf(S)
          IN  NoResetOn(identifier) =>
                  \A k \in DOMAIN A :
                      (k <= config.default_requests
                       /\ A[k].done < S[1].t + config.default_window)
                          => A[k].remaining = config.default_requests - k
    /\ \A i \in DOMAIN hist : hist[i].remaining >= 0

\* ------------------------------------------------------------------- C8
\* The earlier is_allowed calls on the identifier of the i-th returned call.
EarlierChecks(i) ==
    {j \in 1..(i - 1) : /\ hist[j].op = "is_allowed"
                        /\ hist[j].identifier = hist[i].identifier}

\* The i-th returned call is an is_allowed call made more than its window
\* after the most recent is_allowed call on its identifier.
AfterQuietWindow(i) ==
    /\ hist[i].op = "is_allowed"
    /\ EarlierChecks(i) # {}
    /\ \A j \in EarlierChecks(i) : hist[i].t > hist[j].t + hist[i].window

RightAfterReset(i) ==
    /\ i > 1
    /\ hist[i].op = "is_allowed"
    /\ hist[i - 1].op = "reset"
    /\ hist[i - 1].identifier = hist[i].identifier

\* C9: reset(id) followed immediately by is_allowed(id) is allowed with
\* remaining = m - 1, whatever calls preceded the reset.
C9_AllowedAfterReset ==
    \A i \in DOMAIN hist :
        RightAfterReset(i) =>
            hist[i].allowed /\ hist[i].remaining = hist[i].limit - 1

\* A reset that deleted the record of an identifier whose quota was
\* exhausted, and a check right after it, at the time of the call that
\* took the last slot.
C9_Witness ==
    \E i \in DOMAIN hist :
        /\ RightAfterReset(i)
        /\ hist[i - 1].existed
        /\ \E j \in EarlierChecks(i) :
              hist[j].allowed /\ hist[j].remaining = 0 /\ hist[j].t = hist[i].t

\* ------------------------------------------------------------------ C10
\* The identifiers the calls taking this step are on (none when only the
\* clock moves).
ActedOn ==
    IF hist' # hist THEN {hist'[Len(hist')].identifier}
    ELSE {call'[p].identifier : p \in {q \in Procs : pc'[q] # pc[q]}}

\* C10: a step of any is_allowed, get_usage or reset call leaves the record
\* and the expiry of every other identifier unchanged.
C10_OtherIdentifiersUntouched ==
    [][ActedOn # {} =>
          \A other \in Ids \ ActedOn : db'[Key(other)] = db[Key(other)]]_vars

\* A call has just taken the last slot of "u" while "v" holds a record of
\* its own.
C10_Witness ==
    /\ hist # <<>>
    /\ hist[Len(hist)].op = "is_allowed"
    /\ hist[Len(hist)].identifier = "u"
    /\ hist[Len(hist)].allowed
    /\ hist[Len(hist)].remaining = 0
    /\ Exists(db[Key("u")])
    /\ Exists(db[Key("v")])

\* ------------------------------------------------------------------ C11
\* Every call is answered at the time it was made.
AnsweredAtOnce(S) == \A k \in DOMAIN S : S[k].done = S[k].t

\* The first four calls of the scenario: the calls at 0, 1, 2 are allowed
\* with remaining 2, 1, 0 and the call at 3 is blocked with retry_after 5.
ScenarioFirstFour(S) ==
    \A k \in DOMAIN S :
        /\ S[k].t = ScenarioTimes[k]
        /\ k <= 3 => S[k].allowed /\ S[k].remaining = 3 - k
        /\ k = 4 => ~S[k].allowed /\ S[k].retry_after = 5

\* C11 as stated: policy (3, 5) on an empty record of "u": the calls at
\* 0, 1, 2 are allowed with remaining 2, 1, 0, the call at 3 is blocked with
\* retry_after 5, and the call at 6 is allowed with remaining 2 while the
\* events of 1 and 2 are still counted.
C11_Scenario ==
    LET S == CallsOf("is_allowed", "u")
    IN  AnsweredAtOnce(S) =>
            /\ ScenarioFirstFour(S)
            /\ Len(S) = 5 => /\ S[5].allowed
                             /\ S[5].remaining = 2
                             /\ S[5].count = 2

\* C11 amended: the call at 6 is allowed with remaining = 3 - count - 1,
\* where rate_limiter.py counts the event of 2 only (the event of 1 is
\* exactly one window old and purged) and app.py the events of 1 and 2.
C11_ScenarioAsComputed ==
    LET S == CallsOf("is_allowed", "u")
    IN  AnsweredAtOnce(S) =>
            /\ ScenarioFirstFour(S)
            /\ Len(S) = 5 =>
                  /\ S[5].allowed
                  /\ S[5].count = (IF impl = "app" THEN 2 ELSE 1)
                  /\ S[5].oldest = (IF impl = "app" THEN 1 ELSE 2)
                  /\ S[5].remaining = 3 - S[5].count - 1

\* All five calls of the scenario have returned, under rate_limiter.py.
C11_Witness ==
    /\ impl = "rate_limiter"
    /\ Len(CallsOf("is_allowed", "u")) = 5
    /\ AnsweredAtOnce(CallsOf("is_allowed", "u"))
    /\ hist[5].t = 6

\* ------------------------------------------------------------------ C12
\* The policy a call was given is invalid: max_requests <= 0 or
\* window_seconds <= 0.
InvalidPolicy(args) ==
    \/ args[1] # None /\ args[1][1] <= 0
    \/ args[2] # None /\ args[2][1] <= 0

\* C12: an is_allowed call with an invalid policy ends with an error
\* raised before any store operation: it returns no verdict and has sent
\* nothing to the store.
C12_InvalidPolicyRejected ==
    \A i \in DOMAIN hist :
        (hist[i].op = "is_allowed" /\ InvalidPolicy(hist[i].args)) =>
            hist[i].raised # "none" /\ hist[i].ops = 0

\* ------------------------------------------------------------------ C13
\* C13: an is_allowed call during which a store operation failed ends with
\* that failure, distinct from a verdict, is never allowed, and has sent
\* nothing to the store after the operation that failed: one round trip
\* when the batch failed, two when the removal failed.
C13_StoreFailureSurfaces ==
    \A i \in DOMAIN hist :
        (hist[i].op = "is_allowed" /\ hist[i].failed # "none") =>
            /\ hist[i].raised = hist[i].failed
            /\ ~hist[i].allowed
            /\ hist[i].ops = (IF hist[i].failed = "pipe.execute" THEN 1 ELSE 2)

\* A call whose batch failed after the store had applied it, leaving a
\* record behind, and a call whose removal failed.
C13_Witness ==
    /\ Exists(db[Key("u")])
    /\ \E i, j \in DOMAIN hist :
          /\ hist[i].failed = "pipe.execute"
          /\ hist[j].failed = "zrem"

VerdictAsSpecified(h) ==
    /\ h.limit = OrDefault(h.args[1], config.default_requests)
    /\ h.allowed <=> h.count < h.limit
    /\ h.allowed => h.retry_after = 0 /\ h.remaining = h.limit - h.count - 1
    /\ ~h.allowed => h.remaining = 0 /\ h.retry_after = h.window
    /\ h.reset = h.t + h.window

\* C15: the count a call decides on is the number of events in its window
\* before its own event is added, and every verdict returned satisfies:
\* limit is the max_requests used; allowed <=> count < max_requests; allowed
\* => retry_after = 0 and remaining = max_requests - count - 1; blocked =>
\* remaining = 0 and retry_after = window_seconds; reset = now +
\* window_seconds.
C15_VerdictFields ==
    [][/\ \A p \in Procs :
             (pc[p] = "pipe" /\ pc'[p] # "pipe") =>
                 (IF pc'[p] = "zrem" THEN call'[p].request_count
                                     ELSE hist'[Len(hist')].count)
                    = CountAt(call[p].identifier, call[p].window_seconds,
                              call[p].current_time)
       /\ (hist' # hist /\ hist'[Len(hist')].op = "is_allowed") =>
              VerdictAsSpecified(hist'[Len(hist')])]_vars

\* A blocked verdict, and an allowed verdict that found events counted.
C15_Witness ==
    \E i, j \in DOMAIN hist :
        /\ hist[i].op = "is_allowed" /\ ~hist[i].allowed /\ hist[i].count >= hist[i].limit
        /\ hist[j].op = "is_allowed" /\ hist[j].allowed /\ hist[j].count > 0

QuietForAWindow(identifier) ==
    /\ InProgressOn(identifier) = {}
    /\ \A i \in DOMAIN hist :
          (hist[i].op = "is_allowed" /\ hist[i].identifier = identifier) =>
              hist[i].done + hist[i].window < now

\* C17: the batch of every is_allowed call, allowed or blocked, leaves the
\* record with a time-to-live of that call's window_seconds; no record is
\* without a time-to-live or outlives it; and an identifier without a call
\* for more than window_seconds has no record left, with no reset or other
\* cleanup needed.
C17_RecordExpiresAfterWindow ==
    [][/\ \A p \in Procs :
             (pc[p] = "pipe" /\ pc'[p] # "pipe") =>
                 /\ Exists(db'[Key(call[p].identifier)])
                 /\ db'[Key(call[p].identifier)].expire_at
                        = now + call[p].window_seconds
       /\ \A k \in Keys :
             Exists(db'[k]) => db'[k].expire_at # NoExpiry /\ now' <= db'[k].expire_at
       /\ (\A identifier \in Ids :
               QuietForAWindow(identifier) => ~Exists(db[Key(identifier)]))']_vars

\* "u" was checked, allowed and blocked, never reset nor read with
\* get_usage, and a window later its record is gone.
C17_Witness ==
    /\ QuietForAWindow("u")
    /\ ~Exists(db[Key("u")])
    /\ \A i \in DOMAIN hist : hist[i].op = "is_allowed"
    /\ \E i, j \in DOMAIN hist : hist[i].allowed /\ ~hist[j].allowed

\* ------------------------------------------------------------------ C18
\* The requests served before the i-th one that the route's own limiter
\* admitted for the same client on the same path, at most one window before
\* the i-th request's route check.
AdmittedByRouteBefore(i) ==
    {j \in 1..(i - 1) :
        /\ http.log[j].client = http.log[i].client
        /\ http.log[j].path = http.log[i].path
        /\ http.log[j].route.made /\ http.log[j].route.allowed
        /\ http.log[j].route.t >=
               http.log[i].route.t - RoutePolicy(http.log[i].path).window_seconds}

\* The route's own limiter rejected the i-th request although it had not
\* admitted max_requests requests for that client and path in the window.
RouteRejectedEarly(i) ==
    /\ http.log[i].route.made
    /\ ~http.log[i].route.allowed
    /\ Cardinality(AdmittedByRouteBefore(i)) < http.log[i].route.limit

\* C18: in the FastAPI applications the route's limiter checks an identifier
\* other than the one the global middleware checks for the same request,
\* and it rejects a request only when it has itself admitted max_requests
\* requests of that client to that path within the window.
C18_RouteRecordIsItsOwn ==
    http.app \in {"example_fastapi", "app"} =>
        \A i \in DOMAIN http.log :
            http.log[i].route.made =>
                /\ http.log[i].route.identifier # http.log[i].global.identifier
                /\ ~RouteRejectedEarly(i)

\* ------------------------------------------------------------------ C19
\* C19: with the Flask decorator, the check of a request to a decorated
\* route counts no more events than that route has admitted for the client
\* within the window, and rejects the request only when the route itself has
\* admitted its max_requests: requests to another decorated route neither
\* use up its quota nor get it rejected.
C19_FlaskRoutesIndependent ==
    http.app = "example_flask" =>
        \A i \in DOMAIN http.log :
            http.log[i].route.made =>
                /\ http.log[i].route.count <= Cardinality(AdmittedByRouteBefore(i))
                /\ ~RouteRejectedEarly(i)

\* ------------------------------------------------------------------ C20
\* The response an adapter owes for the verdict it obtained: blocked, a 429
\* with the four headers, X-RateLimit-Remaining being 0, and a body echoing
\* limit, reset and retry_after; allowed, the three headers of that verdict.
ResponseFor(verdict, response) ==
    IF verdict.allowed
    THEN /\ response.limit = Str(verdict.limit)
         /\ response.remaining = Str(verdict.remaining)
         /\ response.reset = Str(verdict.reset)
    ELSE /\ response.status = 429
         /\ response.limit = Str(verdict.limit)
         /\ response.remaining = Str(0)
         /\ response.reset = Str(verdict.reset)
         /\ response.retry_after = Str(verdict.retry_after)
         /\ response.body = <<verdict.limit, verdict.reset, verdict.retry_after>>

\* C20: for every request served, in every adapter: the response the global
\* middleware returns is the one owed for its verdict, and the handler has
\* not run when that verdict is blocked; the response the route's limiter
\* (dependency or decorator) lets out is the one owed for its verdict, and
\* the handler has run exactly once when that verdict is allowed and not at
\* all when it is blocked; a request any limiter blocked is answered with a
\* 429 whose X-RateLimit-Remaining is 0.
C20_AdapterResponses ==
    \A i \in DOMAIN http.log :
        LET r == http.log[i]
        IN  /\ r.global.made =>
                  /\ ResponseFor(r.global, r.response)
                  /\ ~r.global.allowed => r.handler_calls = 0
            /\ r.route.made =>
                  /\ ResponseFor(r.route, r.inner)
                  /\ r.handler_calls = (IF r.route.allowed THEN 1 ELSE 0)
            /\ (r.global.made /\ ~r.route.made /\ r.global.allowed) => r.handler_calls = 1
            /\ ((r.global.made /\ ~r.global.allowed) \/ (r.route.made /\ ~r.route.allowed)) =>
                  r.response.status = 429 /\ r.response.remaining = Str(0)

\* ------------------------------------------------------------------ C21
\* The value a call is to use: the explicit argument, the configured
\* default when the argument is omitted.
Given(arg, default) == IF arg = None THEN default ELSE arg[1]

\* C21: an is_allowed call decides on Given(max_requests), purges and sets
\* the expiry with Given(window_seconds) and reports Given(max_requests) as
\* its limit; get_usage purges with Given(window_seconds); no step changes
\* the configured defaults.
C21_PolicyUsed ==
    [][/\ config' = config
       /\ \A p \in Procs :
             (pc[p] = "pipe" /\ pc'[p] # "pipe") =>
                 LET c == call[p]
                     k == Key(c.identifier)
                     m == Given(c.args[1], config.default_requests)
                     w == Given(c.args[2], config.default_window)
                     purged == ZRemRangeByScore(db[k], 0,
                                   WindowStart(impl, c.current_time, w))
                 IN  /\ DOMAIN db'[k].zset
                            = DOMAIN purged.zset \cup {Str(c.current_time)}
                     /\ db'[k].expire_at = now + w
                     /\ (pc'[p] = "idle") <=> (ZCard(purged) < m)
                     /\ pc'[p] = "idle" =>
                            /\ hist'[Len(hist')].allowed
                            /\ hist'[Len(hist')].limit = m
       /\ \A p \in Procs :
             (pc[p] = "zrem" /\ pc'[p] = "idle") =>
                 /\ ~hist'[Len(hist')].allowed
                 /\ hist'[Len(hist')].limit
                        = Given(call[p].args[1], config.default_requests)
       /\ \A p \in Procs :
             (pc[p] = "purge" /\ pc'[p] = "card") =>
                 LET c == call[p]
                     k == Key(c.identifier)
                     w == Given(c.args[2], config.default_window)
                 IN  db'[k] = ZRemRangeByScore(db[k], 0,
                                  WindowStart(impl, c.current_time, w))]_vars

\* The calls returned include a check with an explicit policy that differs
\* from the defaults in both parts, and a get_usage with an explicit window
\* other than the default that counted an event.
C21_Witness ==
    \E i, j \in DOMAIN hist :
        /\ hist[i].op = "is_allowed"
        /\ hist[i].args[1] # None /\ hist[i].args[1][1] # config.default_requests
        /\ hist[i].args[2] # None /\ hist[i].args[2][1] # config.default_window
        /\ hist[j].op = "get_usage"
        /\ hist[j].args[2] # None /\ hist[j].args[2][1] # config.default_window
        /\ hist[j].count > 0

\* ------------------------------------------------------------------ C22
\* The events of a record with a timestamp after t - w.
YoungerThan(rec, t, w) == {x \in DOMAIN rec.zset : rec.zset[x] > t - w}

\* C22: the purge of is_allowed and the purge of get_usage remove every
\* event with timestamp <= now - window_seconds and keep every event with a
\* later timestamp, now being the time the call read; is_allowed counts
\* exactly the events kept and get_usage returns their number.
C22_PurgeBoundary ==
    [][\A p \in Procs :
          LET c == call[p]
              k == Key(c.identifier)
              kept == YoungerThan(db[k], c.current_time, c.window_seconds)
          IN  /\ (pc[p] = "pipe" /\ pc'[p] # "pipe") =>
                    /\ DOMAIN db'[k].zset = kept \cup {Str(c.current_time)}
                    /\ (IF pc'[p] = "zrem" THEN call'[p].request_count
                                           ELSE hist'[Len(hist')].count)
                           = Cardinality(kept)
              /\ (pc[p] = "purge" /\ pc'[p] = "card") =>
                    DOMAIN db'[k].zset = kept
              /\ (pc[p] = "card" /\ pc'[p] = "idle") =>
                    hist'[Len(hist')].count
                        = Cardinality(YoungerThan(db[k], c.current_time,
                                                  c.window_seconds))]_vars

\* ------------------------------------------------------------------ C23
\* C23: whenever a call writes an identifier's record (the batch or the
\* removal of is_allowed, the purge of get_usage), every timestamp the
\* record then holds lies within [T - w, T], T being the time that call
\* read and w its window_seconds; between writes the record does not change
\* except by being deleted, so in every state every stored timestamp lies
\* within that interval of the last call that wrote the record.
C23_TimestampsWithinLastWindow ==
    [][/\ \A p \in Procs :
             (pc[p] \in {"pipe", "zrem", "purge"} /\ pc'[p] # pc[p]) =>
                 LET c == call[p]
                     rec == db'[Key(c.identifier)]
                 IN  \A x \in DOMAIN rec.zset :
                         /\ c.current_time - c.window_seconds <= rec.zset[x]
                         /\ rec.zset[x] <= c.current_time
       /\ (\A p \in Procs : pc'[p] = pc[p]) =>
             \A k \in Keys : db'[k] = db[k] \/ db'[k] = Absent]_vars

\* ------------------------------------------------------------------ C24
\* The i-th returned call is the first is_allowed call made once the oldest
\* event that the blocked call b counted is window_seconds old or older, all
\* the checks of the identifier between the two having been blocked.
FirstAfterAgedOut(b, i) ==
    /\ b < i
    /\ hist[b].op = "is_allowed" /\ ~hist[b].allowed
    /\ hist[i].op = "is_allowed" /\ hist[i].identifier = hist[b].identifier
    /\ \A j \in (b + 1)..(i - 1) :
          (hist[j].op = "is_allowed" /\ hist[j].identifier = hist[b].identifier)
              => ~hist[j].allowed
    /\ hist[i].t >= hist[b].oldest + hist[i].window

\* C24: for sequential calls with a fixed policy, the removal of a blocked
\* call leaves no event with that call's timestamp in the record, and the
\* first call made once the oldest allowed event has aged out of the window
\* is allowed, however many blocked calls were made in between.
C24_BlockedNeverEscalates ==
    [][/\ \A p \in Procs :
             (pc[p] = "zrem" /\ pc'[p] = "idle") =>
                 Str(call[p].current_time)
                     \notin DOMAIN db'[Key(call[p].identifier)].zset
       /\ (\A b, i \in DOMAIN hist :
               FirstAfterAgedOut(b, i) => hist[i].allowed)']_vars

\* ------------------------------------------------------------------ C25
\* What the batch of an is_allowed call with window w and timestamp t
\* counts in a record.
CountIn(rec, w, t) == ZCard(ZRemRangeByScore(rec, 0, WindowStart(impl, t, w)))

\* C25: the purge of a get_usage call changes the verdict of no is_allowed
\* call with the same window_seconds on the identifier: a call in progress
\* that has read its timestamp and not yet executed is allowed or blocked,
\* and reports the remaining, as it would without the purge, and a call
\* begun at any later time counts what it would count without the purge.
C25_UsageIsAdvisory ==
    [][\A q \in Procs :
          (pc[q] = "purge" /\ pc'[q] = "card") =>
              LET k == Key(call[q].identifier)
                  w == call[q].window_seconds
              IN  /\ \A p \in Procs :
                        (/\ pc[p] = "pipe"
                         /\ call[p].identifier = call[q].identifier
                         /\ call[p].window_seconds = w) =>
                            LET m == call[p].max_requests
                                with == CountIn(db'[k], w, call[p].current_time)
                                without == CountIn(db[k], w, call[p].current_time)
                            IN  /\ Allowed(m, with) = Allowed(m, without)
                                /\ Remaining(m, with) = Remaining(m, without)
                  /\ \A t \in now..MaxTime :
                        CountIn(db'[k], w, t) = CountIn(db[k], w, t)]_vars

\* ------------------------------------------------------------------ C26
\* Two get_usage calls that follow one another on one identifier, with the
\* same window, both made and answered at the same instant.
SameInstantUsage(i) ==
    /\ i + 1 \in DOMAIN hist
    /\ hist[i].op = "get_usage" /\ hist[i + 1].op = "get_usage"
    /\ hist[i].identifier = hist[i + 1].identifier
    /\ hist[i].window = hist[i + 1].window
    /\ hist[i].t = hist[i + 1].t
    /\ hist[i].done = hist[i].t /\ hist[i + 1].done = hist[i].t

\* C26: every step of get_usage leaves in the record exactly the events it
\* held before whose timestamp is > now - window_seconds, with their
\* timestamps, adds none, and leaves the expiry of a record that remains as
\* it was; two get_usage calls at the same instant with the same window
\* return the same count.
C26_UsageOnlyPurges ==
    [][/\ \A p \in Procs :
             (call[p].op = "get_usage" \/ call'[p].op = "get_usage") /\ pc'[p] # pc[p] =>
                 LET c == IF pc[p] = "idle" THEN call'[p] ELSE call[p]
                     k == Key(c.identifier)
                     kept == IF pc[p] = "purge"
                             THEN YoungerThan(db[k], c.current_time, c.window_seconds)
                             ELSE DOMAIN db[k].zset
                 IN  /\ DOMAIN db'[k].zset = kept
                     /\ \A x \in kept : db'[k].zset[x] = db[k].zset[x]
                     /\ kept # {} => db'[k].expire_at = db[k].expire_at
       /\ (\A i \in DOMAIN hist :
               SameInstantUsage(i) => hist[i].count = hist[i + 1].count)']_vars

\* ------------------------------------------------------------------ C27
\* C27: the removal of a rejected call takes out of the record only an
\* event that this call's own batch inserted, and the batch of every
\* allowed call adds one event to those it counted, also when calls on the
\* identifier have read the same timestamp.
C27_RemovalIsOwnEvent ==
    [][\A p \in Procs :
          LET c == call[p]
              k == Key(c.identifier)
          IN  /\ (pc[p] = "zrem" /\ pc'[p] = "idle"
                      /\ DOMAIN db'[k].zset # DOMAIN db[k].zset) => c.added = 1
              /\ (pc[p] = "pipe" /\ pc'[p] = "idle") =>
                    ZCard(db'[k]) = hist'[Len(hist')].count + 1]_vars

\* ------------------------------------------------------------------ C28
\* C28: when an is_allowed call ends with a store error, whichever command
\* failed, the record then holds no event with that call's timestamp, unless
\* an allowed call with the same timestamp recorded it.
C28_FailedCheckLeavesNoEvent ==
    [][(hist' # hist /\ hist'[Len(hist')].op = "is_allowed"
            /\ hist'[Len(hist')].failed # "none") =>
          LET h == hist'[Len(hist')]
          IN  \/ Str(h.t) \notin DOMAIN db'[Key(h.identifier)].zset
              \/ \E i \in DOMAIN hist :
                    /\ hist[i].op = "is_allowed" /\ hist[i].identifier = h.identifier
                    /\ hist[i].allowed /\ hist[i].t = h.t]_vars

\* ------------------------------------------------------------------ C29
\* The most recent returned call on the identifier is the i-th.
LastCallOn(identifier, i) ==
    /\ hist[i].identifier = identifier
    /\ \A j \in (i + 1)..Len(hist) : hist[j].identifier # identifier

\* Caller p is about to execute the batch of an is_allowed call that it
\* made retry_after or more after the i-th returned call was answered
\* blocked, with the same policy (m >= 1), no other call on the identifier
\* having been made or being in progress since.
RetriedAfter(p, i) ==
    /\ pc[p] = "pipe"
    /\ InProgressOn(call[p].identifier) = {p}
    /\ LastCallOn(call[p].identifier, i)
    /\ hist[i].op = "is_allowed" /\ ~hist[i].allowed /\ hist[i].failed = "none"
    /\ hist[i].limit = call[p].max_requests /\ hist[i].window = call[p].window_seconds
    /\ hist[i].limit >= 1
    /\ call[p].current_time >= hist[i].done + hist[i].retry_after

\* C29: with m >= 1, after a blocked verdict with retry_after = r and no
\* other call on the identifier since, an is_allowed call with the same
\* policy made r or more after that verdict was returned is allowed.
C29_AllowedAfterRetryAfter ==
    [][\A p \in Procs : \A i \in DOMAIN hist :
          (RetriedAfter(p, i) /\ pc'[p] # "pipe") => pc'[p] = "idle"]_vars

\* ------------------------------------------------------------------ C30
\* C30: an identifier that is always checked with the configured policy
\* (m, w) holds at most m events in its record in every state in which no
\* is_allowed call on it is in progress.
C30_AtMostMEventsAtRest ==
    \A identifier \in Ids :
        (\A p \in InProgressOn(identifier) : call[p].op # "is_allowed") =>
            ZCard(db[Key(identifier)]) <= config.default_requests

\* ------------------------------------------------------------------ C31
\* C31: in every state reached by any interleaving of is_allowed, get_usage
\* and reset calls, every record that exists in the store has a
\* time-to-live.
C31_EveryRecordHasExpiry ==
    \A k \in Keys : Exists(db[k]) => db[k].expire_at # NoExpiry

\* A record exists after a check on its identifier was blocked and its event
\* removed and a get_usage has then purged and counted.
C31_Witness ==
    \E identifier \in Ids :
        /\ Exists(db[Key(identifier)])
        /\ \E i, j \in DOMAIN hist :
              /\ i < j
              /\ hist[i].identifier = identifier /\ hist[j].identifier = identifier
              /\ hist[i].op = "is_allowed" /\ ~hist[i].allowed
              /\ hist[j].op = "get_usage" /\ hist[j].count > 0

\* ------------------------------------------------------------------ C32
\* The identifier the design gives a request: the first entry of
\* X-Forwarded-For if present, else X-Real-IP if present, else the address
\* of the direct peer.
IdentifierAsSpecified(request) ==
    IF Truthy(request.forwarded_for) THEN Strip(FirstEntry(request.forwarded_for[1]))
    ELSE IF Truthy(request.real_ip) THEN request.real_ip[1]
    ELSE PeerAddress(request)

\* C32: every adapter's default identifier of a request is the one the
\* design gives it, so any two adapters name the same client for one
\* request.
C32_SameDefaultIdentifier ==
    http.app = "identifier" =>
        /\ \A i \in DOMAIN http.log :
              http.log[i].identifier = IdentifierAsSpecified(http.req)
        /\ \A i, j \in DOMAIN http.log :
              http.log[i].identifier = http.log[j].identifier

\* ------------------------------------------------------------------ C33
\* The timestamps a record holds, and those a list holds.
Timestamps(rec) == {rec.zset[x] : x \in DOMAIN rec.zset}

Listed(stored) == {stored[i] : i \in DOMAIN stored}

\* C33: for sequential calls with the fixed policy (m, w), each answered at
\* the time it is made, the k-th verdict of RateLimiter.is_allowed equals
\* the k-th verdict of SimpleRateLimitMiddleware._is_allowed in the allowed
\* flag and in limit, remaining, reset and retry_after, and when the k-th
\* call returns the record holds the same timestamps as the list.
C33_DemoEquivalent ==
    [][(http.app = "demo_no_redis" /\ hist' # hist /\ AnsweredAtOnce(hist')) =>
          LET k == Len(hist')
              h == hist'[k]
              d == http.log[k]
          IN  /\ h.allowed = d.allowed
              /\ h.limit = d.limit
              /\ h.remaining = d.remaining
              /\ h.reset = d.reset
              /\ h.retry_after = d.retry_after
              /\ Timestamps(db'[Key(h.identifier)])
                     = Listed(http.request_store[h.identifier])]_vars

====
